---- MODULE Spec2Model ----
(***************************************************************************)
(* obsidian-note-list: a note list view and a tag list view over the       *)
(* host's vault and metadata cache, a document-wide "set-filter" event     *)
(* between them, and one persisted settings field.                         *)
(*                                                                         *)
(* The sources hold three revisions of the views:                          *)
(*   "taglist"  src/main.tsx:1-362      NoteList + TagList (getFilesByTag) *)
(*   "props"    src/main.tsx:364-646    NoteList + TagList (per-file map), *)
(*                                      listeners added in plain useEffect *)
(*   "tagpane"  src/unnamed/part_000:1-307  NoteList + the host's tag pane *)
(*                                      intercepted by handleTagClick      *)
(* The revision is fixed in the initial state.  (A fourth, the skeleton at  *)
(* src/unnamed/part_000:309-408, has an empty onOpen and no view state.)    *)
(*                                                                         *)
(* A step is one host callback run to completion: the host operation, the  *)
(* synchronous trigger of its listeners, the React state updates they      *)
(* make, the re-render and the effects of that render.                     *)
(***************************************************************************)
EXTENDS Integers, Sequences, FiniteSets, TLC

\* ------------------------------------------------------------- bounds
MaxFiles == 2
MaxTags == 2
MaxOpens == 2
MaxInflight == 2

\* ----------------------------------------------------------- universe
Variants == {"taglist", "props", "tagpane"}
Files == 1..MaxFiles
TagTexts == {"a", "b"}
Tags == {"#" \o x : x \in TagTexts}
TagSeqs == UNION {[1..n -> Tags] : n \in 1..MaxTags}

\* getFileCache(file): null, an entry without tags, or an entry with tags
NoCache == [st |-> "null", tags |-> <<>>]
NoTags == [st |-> "notags", tags |-> <<>>]
CacheValues == {NoCache, NoTags} \cup {[st |-> "tags", tags |-> s] : s \in TagSeqs}

EventKinds == {"create", "delete", "rename", "modify", "changed", "set-filter"}

VARIABLES
    variant,      \* which revision of the views runs
    vaultFiles,   \* vault.getMarkdownFiles(): sequence of distinct TFiles
    cache,        \* metadataCache.getFileCache(file), per TFile
    handlers,     \* callbacks registered on vault / metadataCache / document, per event
    nlMounted,    \* NoteListView: root rendered
    nlFiles,      \* NoteList: `files` state
    nlFilter,     \* NoteList: `filter` state
    nlDisplayed,  \* NoteList: filteredFiles of the last render (the <li> list)
    tlMounted,    \* TagListView: root rendered
    tlFilter,     \* TagList: `filter` state
    tlTags,       \* TagList ("taglist"): `tags` state, OrderedMap as a sequence of entries
    tlFileTags,   \* TagList ("props"): `tags` state, Map<TFile, string[]>
    dispatched,   \* set-filter events dispatched on the document by the last step
    settings,     \* MyPlugin.settings.mySetting ("unloaded" before loadSettings)
    stored,       \* the host's data blob: [has |-> FALSE] or [has |-> TRUE, mySetting |-> v]
    inflight,     \* saveData calls not yet completed, oldest first
    lastEntered   \* the last value given to the settings field's onChange

hostVars == <<vaultFiles, cache>>
nlVars == <<nlMounted, nlFiles, nlFilter, nlDisplayed>>
tlVars == <<tlMounted, tlFilter, tlTags, tlFileTags>>
viewVars == <<variant, vaultFiles, cache, handlers, nlMounted, nlFiles, nlFilter,
              nlDisplayed, tlMounted, tlFilter, tlTags, tlFileTags, dispatched>>
settingsVars == <<settings, stored, inflight, lastEntered>>
vars == <<variant, vaultFiles, cache, handlers, nlMounted, nlFiles, nlFilter,
          nlDisplayed, tlMounted, tlFilter, tlTags, tlFileTags, dispatched,
          settings, stored, inflight, lastEntered>>

\* ------------------------------------------------------------ helpers
Range(s) == {s[i] : i \in DOMAIN s}
CountOf(s, k) == Cardinality({i \in DOMAIN s : s[i] = k})
RemoveFile(s, f) == SelectSeq(s, LAMBDA x : x # f)

\* !filter : undefined, null and the empty string are falsy
Falsy(filter) == filter \in {"undefined", "null", ""}

\* new CustomEvent(type, {detail}): an undefined detail reads back as null
DetailOf(filter) == IF filter = "undefined" THEN "null" ELSE filter

\* metadataCache.getFileCache(file)?.tags ?? []
tagsOf(c, f) == IF c[f].st = "tags" THEN c[f].tags ELSE <<>>

\* metadataCache.getFileCache(file)?.tags?.some((tag) => tag.tag === filter)
someTag(c, f, filter) == c[f].st = "tags" /\ \E i \in DOMAIN c[f].tags : c[f].tags[i] = filter

\* NoteList: filteredFiles
filteredFiles(files, filter, c) ==
    IF Falsy(filter) THEN files
    ELSE SelectSeq(files, LAMBDA f : someTag(c, f, filter))

\* ------------------------------------------------- TagList: the fold
\* updateTag with the update written as () => Set([file]): a later file replaces the set
updateTagOverwrite(map, tag, file) ==
    IF \E i \in DOMAIN map : map[i].tag = tag
    THEN LET i == CHOOSE k \in DOMAIN map : map[k].tag = tag
         IN  [map EXCEPT ![i].files = {file}]
    ELSE Append(map, [tag |-> tag, files |-> {file}])

\* map.update(tag.tag, (files) => files ? files.add(file) : Set([file]))
\* on an OrderedMap: an existing key keeps its place, a new key goes last
updateTag(map, tag, file) ==
    IF \E i \in DOMAIN map : map[i].tag = tag
    THEN LET i == CHOOSE k \in DOMAIN map : map[k].tag = tag
         IN  [map EXCEPT ![i].files = @ \cup {file}]
    ELSE Append(map, [tag |-> tag, files |-> {file}])

\* the inner reduce, over one file's tags
RECURSIVE reduceTags(_, _, _)
reduceTags(map, tags, file) ==
    IF tags = <<>> THEN map
    ELSE reduceTags(updateTag(map, Head(tags), file), Tail(tags), file)

\* the outer reduce, over vault.getMarkdownFiles()
RECURSIVE reduceFiles(_, _, _)
reduceFiles(map, files, c) ==
    IF files = <<>> THEN map
    ELSE reduceFiles(reduceTags(map, tagsOf(c, Head(files)), Head(files)), Tail(files), c)

\* sortKey without the minus sign: (files) => files.size
sortKeyAscending(entry) == Cardinality(entry.files)

\* the sort key: (files) => -files.size
sortKey(entry) == 0 - Cardinality(entry.files)

\* one insertion of the stable sort: after every entry whose key is <= the new one
insertByKey(sorted, entry) ==
    LET n == Cardinality({i \in DOMAIN sorted : sortKey(sorted[i]) <= sortKey(entry)})
    IN  SubSeq(sorted, 1, n) \o <<entry>> \o SubSeq(sorted, n + 1, Len(sorted))

\* OrderedMap.sortBy: stable, ascending in the key
RECURSIVE sortBy(_, _)
sortBy(sorted, map) ==
    IF map = <<>> THEN sorted
    ELSE sortBy(insertByKey(sorted, Head(map)), Tail(map))

\* TagList: getFilesByTag
getFilesByTag(files, c) == sortBy(<<>>, reduceFiles(<<>>, files, c))

\* TagList ("props"): Map<TFile, string[]> of the initial useState
initialFileTags(files, c) ==
    [f \in Files |->
        IF f \in Range(files) THEN [has |-> TRUE, tags |-> tagsOf(c, f)]
        ELSE [has |-> FALSE, tags |-> <<>>]]

\* the <button>s the tag list renders
TagButtons ==
    IF variant = "taglist" THEN {tlTags[i].tag : i \in DOMAIN tlTags}
    ELSE UNION {Range(tlFileTags[f].tags) : f \in Files}

\* toggleFilter without the toggle: setFilter(tag)
toggleFilterSelectOnly(filter, tag) == tag

\* onClick: setFilter(filter === tag ? undefined : tag)
toggleFilter(filter, tag) == IF filter = tag THEN "undefined" ELSE tag

\* --------------------------------------------- listeners and effects
\* the vault events NoteList subscribes to on its first render
NoteListSubs(v) ==
    IF v = "taglist" THEN <<"create", "create", "create">>
    ELSE <<"create", "delete", "rename">>

\* useEventRef returns a cleanup (offref); the plain useEffect of "props" returns none
HasCleanup(v) == v # "props"

\* "props" renders <li>{file.basename}</li>, the others a <Note> with a modify listener
HasNote(v) == v # "props"

AddSubs(h, subs) == [k \in EventKinds |-> h[k] + CountOf(subs, k)]
DropSubs(h, subs) == [k \in EventKinds |-> h[k] - CountOf(subs, k)]

\* setFilterListenerEffect with the listener added on the first render only, the cleanup
\* still run after every render
setFilterListenerOnce(n, first) == IF first THEN n + 1 ELSE n - 1

\* NoteList's useEffect without dependencies: after every render the cleanup of the
\* previous render removes handleFilterEvent and the effect adds it again
setFilterListenerEffect(n, first) == (IF first THEN n ELSE n - 1) + 1

\* <Note key={file.path}>: a Note leaving the list runs offref, one entering runs vault.on
noteEffects(n, old, new) == n - Len(old) + Len(new)

\* the effects of one NoteList render
NoteListEffects(h, first, old, new) ==
    LET h1 == IF first THEN AddSubs(h, NoteListSubs(variant)) ELSE h
    IN  [h1 EXCEPT !["set-filter"] = setFilterListenerEffect(@, first),
                   !["modify"] = IF HasNote(variant) THEN noteEffects(@, old, new) ELSE @]

\* root.unmount() of the note list: every effect's cleanup
NoteListCleanup(h, displayed) ==
    LET h1 == IF HasCleanup(variant) THEN DropSubs(h, NoteListSubs(variant)) ELSE h
    IN  [h1 EXCEPT !["set-filter"] = @ - 1,
                   !["modify"] = IF HasNote(variant) THEN @ - Len(displayed) ELSE @]

\* root.unmount() of the tag list
TagListCleanup(h) ==
    IF HasCleanup(variant) THEN [h EXCEPT !["changed"] = @ - 1] ELSE h

\* ------------------------------------------------ NoteList reactions
\* a state update of the mounted NoteList, its re-render and that render's effects;
\* h: the registry before those effects, c: the cache the render reads
NoteListUpdate(files, filter, h, c) ==
    /\ nlFiles' = files
    /\ nlFilter' = filter
    /\ nlDisplayed' = filteredFiles(files, filter, c)
    /\ handlers' = NoteListEffects(h, FALSE, nlDisplayed, filteredFiles(files, filter, c))
    /\ UNCHANGED nlMounted

\* vault.trigger(kind): () => setFiles(vault.getMarkdownFiles())
VaultTrigger(kind) ==
    IF nlMounted /\ handlers[kind] > 0
    THEN NoteListUpdate(vaultFiles', nlFilter, handlers, cache')
    ELSE UNCHANGED <<nlVars, handlers>>

\* document.dispatchEvent(new CustomEvent("obsidian-note-list:set-filter", {detail})):
\* handleFilterEvent runs setFilter(event.detail); an equal state does not re-render
DispatchSetFilter(detail, h) ==
    /\ dispatched' = <<detail>>
    /\ IF nlMounted /\ h["set-filter"] > 0 /\ detail # nlFilter
       THEN NoteListUpdate(nlFiles, detail, h, cache)
       ELSE /\ handlers' = h
            /\ UNCHANGED nlVars

\* ------------------------------------------------------- initial state
NoHandlers == [k \in EventKinds |-> 0]
NoBlob == [has |-> FALSE, mySetting |-> ""]
DEFAULT_SETTINGS == "default"
SettingValues == {"", "default", "secret", "secret "}

ViewInit ==
    /\ variant \in Variants
    /\ vaultFiles = <<>>
    /\ cache = [f \in Files |-> NoCache]
    /\ handlers = NoHandlers
    /\ nlMounted = FALSE
    /\ nlFiles = <<>>
    /\ nlFilter = "undefined"
    /\ nlDisplayed = <<>>
    /\ tlMounted = FALSE
    /\ tlFilter = "undefined"
    /\ tlTags = <<>>
    /\ tlFileTags = [f \in Files |-> [has |-> FALSE, tags |-> <<>>]]
    /\ dispatched = <<>>

SettingsInit ==
    /\ settings = "unloaded"
    /\ stored = NoBlob
    /\ inflight = <<>>
    /\ lastEntered = "none"

Init == ViewInit /\ SettingsInit

\* ------------------------------------------------------- host actions
\* the host creates a markdown file and triggers vault "create"; the file is not indexed yet
HostCreate(f) ==
    /\ f \notin Range(vaultFiles)
    /\ vaultFiles' = Append(vaultFiles, f)
    /\ UNCHANGED cache
    /\ VaultTrigger("create")
    /\ dispatched' = <<>>
    /\ UNCHANGED <<variant, tlVars, settingsVars>>

\* the host deletes a file, drops its cache entry and triggers vault "delete"
\* (the metadata cache signals "deleted", not "changed")
HostDelete(f) ==
    /\ f \in Range(vaultFiles)
    /\ vaultFiles' = RemoveFile(vaultFiles, f)
    /\ cache' = [cache EXCEPT ![f] = NoCache]
    /\ VaultTrigger("delete")
    /\ dispatched' = <<>>
    /\ UNCHANGED <<variant, tlVars, settingsVars>>

\* the host renames a file and triggers vault "rename": the TFile and its cache entry
\* stay, its place in getMarkdownFiles() may move to the end (the file map is re-keyed)
HostRename(f, toEnd) ==
    /\ f \in Range(vaultFiles)
    /\ vaultFiles' = IF toEnd THEN Append(RemoveFile(vaultFiles, f), f) ELSE vaultFiles
    /\ UNCHANGED cache
    /\ VaultTrigger("rename")
    /\ dispatched' = <<>>
    /\ UNCHANGED <<variant, tlVars, settingsVars>>

\* metadataCache.on("changed", (file, data, cache) => ...), as the mounted TagList handles it
TagListChanged(f) ==
    IF tlMounted /\ handlers["changed"] > 0
    THEN /\ tlTags' = IF variant = "taglist" THEN getFilesByTag(vaultFiles, cache') ELSE tlTags
         /\ tlFileTags' = IF variant = "props"
                          THEN [tlFileTags EXCEPT ![f] = [has |-> TRUE, tags |-> tagsOf(cache', f)]]
                          ELSE tlFileTags
         /\ UNCHANGED <<tlMounted, tlFilter>>
    ELSE UNCHANGED tlVars

\* the host (re)indexes a file after its creation or modification and triggers
\* metadataCache "changed"
HostIndex(f, entry) ==
    /\ f \in Range(vaultFiles)
    /\ entry # NoCache
    /\ cache' = [cache EXCEPT ![f] = entry]
    /\ TagListChanged(f)
    /\ dispatched' = <<>>
    /\ UNCHANGED <<variant, vaultFiles, nlVars, handlers, settingsVars>>

\* ------------------------------------------------------- view actions
\* NoteListView.onOpen: createRoot, render <NoteList/>, first effects
NoteListOpen ==
    /\ ~nlMounted
    /\ handlers["rename"] < MaxOpens
    /\ nlMounted' = TRUE
    /\ nlFiles' = vaultFiles
    /\ nlFilter' = "undefined"
    /\ nlDisplayed' = filteredFiles(vaultFiles, "undefined", cache)
    /\ handlers' = NoteListEffects(handlers, TRUE, <<>>, filteredFiles(vaultFiles, "undefined", cache))
    /\ dispatched' = <<>>
    /\ UNCHANGED <<variant, hostVars, tlVars, settingsVars>>

\* NoteListView.onClose: root.unmount()
NoteListClose ==
    /\ nlMounted
    /\ nlMounted' = FALSE
    /\ nlFiles' = <<>>
    /\ nlFilter' = "undefined"
    /\ nlDisplayed' = <<>>
    /\ handlers' = NoteListCleanup(handlers, nlDisplayed)
    /\ dispatched' = <<>>
    /\ UNCHANGED <<variant, hostVars, tlVars, settingsVars>>

\* TagListView.onOpen: createRoot, render <TagList/>, first effects: the [filter]
\* effect dispatches set-filter with the initial (undefined) filter
TagListOpen ==
    /\ variant \in {"taglist", "props"}
    /\ ~tlMounted
    /\ handlers["changed"] < MaxOpens
    /\ tlMounted' = TRUE
    /\ tlFilter' = "undefined"
    /\ tlTags' = IF variant = "taglist" THEN getFilesByTag(vaultFiles, cache) ELSE tlTags
    /\ tlFileTags' = IF variant = "props" THEN initialFileTags(vaultFiles, cache) ELSE tlFileTags
    /\ DispatchSetFilter(DetailOf("undefined"), [handlers EXCEPT !["changed"] = @ + 1])
    /\ UNCHANGED <<variant, hostVars, settingsVars>>

\* TagListView.onClose: root.unmount()
TagListClose ==
    /\ tlMounted
    /\ tlMounted' = FALSE
    /\ tlFilter' = "undefined"
    /\ tlTags' = <<>>
    /\ tlFileTags' = [f \in Files |-> [has |-> FALSE, tags |-> <<>>]]
    /\ handlers' = TagListCleanup(handlers)
    /\ dispatched' = <<>>
    /\ UNCHANGED <<variant, hostVars, nlVars, settingsVars>>

\* a click on a tag <button>: setFilter, re-render, the [filter] effect dispatches
TagClick(tag) ==
    /\ tlMounted
    /\ tag \in TagButtons
    /\ tlFilter' = toggleFilter(tlFilter, tag)
    /\ DispatchSetFilter(DetailOf(toggleFilter(tlFilter, tag)), handlers)
    /\ UNCHANGED <<variant, hostVars, tlMounted, tlTags, tlFileTags, settingsVars>>

\* the texts of the host's tag pane: the tags of the indexed files, without "#"
TagPaneTexts == {x \in TagTexts : \E f \in Range(vaultFiles) : someTag(cache, f, "#" \o x)}

\* MyPlugin.handleTagClick: a captured click inside .tag-pane-tag
handleTagClick(text, targetIsHTMLElement) ==
    /\ variant = "tagpane"
    /\ text \in TagPaneTexts
    /\ IF targetIsHTMLElement
       THEN DispatchSetFilter("#" \o text, handlers)
       ELSE /\ dispatched' = <<>>
            /\ UNCHANGED <<nlVars, handlers>>
    /\ UNCHANGED <<variant, hostVars, tlVars, settingsVars>>

Next ==
    \/ \E f \in Files : HostCreate(f)
    \/ \E f \in Files : HostDelete(f)
    \/ \E f \in Files, toEnd \in BOOLEAN : HostRename(f, toEnd)
    \/ \E f \in Files, entry \in CacheValues : HostIndex(f, entry)
    \/ NoteListOpen
    \/ NoteListClose
    \/ TagListOpen
    \/ TagListClose
    \/ \E tag \in Tags : TagClick(tag)
    \/ \E text \in TagTexts, isHtml \in BOOLEAN : handleTagClick(text, isHtml)

Spec == Init /\ [][Next]_vars

\* ----------------------------------------------------------- settings
\* assignSettings written as data?.mySetting || DEFAULT_SETTINGS.mySetting
assignSettingsOr(blob) ==
    IF blob.has /\ blob.mySetting # "" THEN blob.mySetting ELSE DEFAULT_SETTINGS

\* Object.assign({}, DEFAULT_SETTINGS, await this.loadData())
assignSettings(blob) == IF blob.has THEN blob.mySetting ELSE DEFAULT_SETTINGS

\* MyPlugin.loadSettings, from onload: once per plugin instance
loadSettings ==
    /\ settings = "unloaded"
    /\ settings' = assignSettings(stored)
    /\ UNCHANGED <<stored, inflight, lastEntered, viewVars>>

\* the host unloads the plugin and constructs it again (the app restarts, or the plugin
\* is disabled and enabled) once the data file is written
pluginRestart ==
    /\ settings # "unloaded"
    /\ inflight = <<>>
    /\ settings' = "unloaded"
    /\ UNCHANGED <<stored, inflight, lastEntered, viewVars>>

\* the blob saveData(this.settings) hands to the host
savedBlob(value) == [has |-> TRUE, mySetting |-> value]

\* the text field's onChange: this.plugin.settings.mySetting = value, then saveSettings()
\* up to the await
onChange(value) ==
    /\ settings # "unloaded"
    /\ Len(inflight) < MaxInflight
    /\ settings' = value
    /\ inflight' = Append(inflight, savedBlob(value))
    /\ lastEntered' = value
    /\ UNCHANGED <<stored, viewVars>>

\* the host completes the oldest write of the data file
saveCompleted ==
    /\ inflight # <<>>
    /\ stored' = Head(inflight)
    /\ inflight' = Tail(inflight)
    /\ UNCHANGED <<settings, lastEntered, viewVars>>

SettingsNext ==
    \/ loadSettings
    \/ pluginRestart
    \/ \E value \in SettingValues : onChange(value)
    \/ saveCompleted

SettingsSpecInit ==
    /\ ViewInit
    /\ variant = "taglist"
    /\ SettingsInit

SettingsSpec == SettingsSpecInit /\ [][SettingsNext]_vars

\* ------------------------------------- the tag list over any vault
\* every vault the plugin can be started on
DistinctSeqs(S) ==
    UNION {{s \in [1..n -> S] : \A i, j \in 1..n : i # j => s[i] # s[j]} : n \in 0..Cardinality(S)}

TagListInit ==
    /\ variant = "taglist"
    /\ vaultFiles \in DistinctSeqs(Files)
    /\ cache \in [Files -> CacheValues]
    /\ \A f \in Files : f \notin Range(vaultFiles) => cache[f] = NoCache
    /\ handlers = NoHandlers
    /\ nlMounted = FALSE
    /\ nlFiles = <<>>
    /\ nlFilter = "undefined"
    /\ nlDisplayed = <<>>
    /\ tlMounted = FALSE
    /\ tlFilter = "undefined"
    /\ tlTags = <<>>
    /\ tlFileTags = [f \in Files |-> [has |-> FALSE, tags |-> <<>>]]
    /\ dispatched = <<>>
    /\ SettingsInit

TagListNext ==
    \/ \E f \in Files, entry \in CacheValues : HostIndex(f, entry)
    \/ TagListOpen
    \/ TagListClose

TagListSpec == TagListInit /\ [][TagListNext]_vars

\* ======================================================== properties

\* ---- what the fold is meant to compute, stated without the fold
\* the files of the vault whose cached tag list contains tag
FilesTagged(files, c, tag) == {f \in Range(files) : tag \in Range(tagsOf(c, f))}

\* the tags carried by at least one file of the vault
TagsCarried(files, c) == {tag \in Tags : FilesTagged(files, c, tag) # {}}

\* map has one entry per carried tag, holding exactly the files that carry it
IsTagMap(map, files, c) ==
    /\ \A i, j \in DOMAIN map : i # j => map[i].tag # map[j].tag
    /\ {map[i].tag : i \in DOMAIN map} = TagsCarried(files, c)
    /\ \A i \in DOMAIN map : map[i].files = FilesTagged(files, c, map[i].tag)

\* C1: while the note list is mounted, its `files` state equals
\* vault.getMarkdownFiles() after every handled create, delete and rename
C1_FilesMirrorVault == nlMounted => nlFiles = vaultFiles

\* the count the tag list shows next to a tag / the size the fold gives for it now
FoldCount(tag) == Cardinality(FilesTagged(vaultFiles, cache, tag))

\* C2: while the tag list is mounted, the count shown next to every tag equals the
\* size of the file set the fold yields on the vault's current files and cached tags
C2_CountsMatchFold ==
    (tlMounted /\ variant = "taglist") =>
        \A i \in DOMAIN tlTags : Cardinality(tlTags[i].files) = FoldCount(tlTags[i].tag)

\* a metadata cache "changed" event: the cache entry of a file of the vault is replaced
ChangedEvent == vaultFiles' = vaultFiles /\ cache' # cache

\* C3: getFilesByTag maps exactly the carried tags, each to exactly the files whose
\* cached tag list contains it (a repeated tag counted once, an unindexed or untagged
\* file under no tag), and every "changed" event recomputes the map from the vault
C3_GetFilesByTag ==
    [][(tlMounted /\ variant = "taglist" /\ ChangedEvent)
        => IsTagMap(tlTags', vaultFiles', cache')]_vars

\* C3's case: a recomputed map with a file under two tags and a file listing a tag twice
C3_Witness ==
    /\ tlMounted
    /\ dispatched = <<>>
    /\ \E f \in Range(vaultFiles) : Cardinality(Range(tagsOf(cache, f))) = 2
    /\ \E f \in Range(vaultFiles) : Len(tagsOf(cache, f)) > Cardinality(Range(tagsOf(cache, f)))
    /\ \E i \in DOMAIN tlTags : Cardinality(tlTags[i].files) = 2

\* ---- the order in which the fold meets the tags, stated without the fold
RECURSIVE FlatTags(_, _)
FlatTags(files, c) ==
    IF files = <<>> THEN <<>>
    ELSE tagsOf(c, Head(files)) \o FlatTags(Tail(files), c)

FirstSeen(files, c, tag) ==
    LET flat == FlatTags(files, c)
    IN  CHOOSE i \in DOMAIN flat : flat[i] = tag /\ \A j \in 1..(i - 1) : flat[j] # tag

SortedByCount(map, files, c) ==
    \A i, j \in DOMAIN map :
        i < j =>
            /\ Cardinality(map[i].files) >= Cardinality(map[j].files)
            /\ Cardinality(map[i].files) = Cardinality(map[j].files)
                => FirstSeen(files, c, map[i].tag) < FirstSeen(files, c, map[j].tag)

\* C4: the tags the tag list shows are in descending order of file count, and tags of
\* equal count are in the order the fold first met them in the vault's file list
C4_TagsSortedByCount ==
    [][(variant = "taglist" /\ tlMounted' /\ (~tlMounted \/ ChangedEvent))
        => SortedByCount(tlTags', vaultFiles', cache')]_vars

\* C4's case: a shown list the sort had to reorder (the larger tag was met second)
C4_Witness ==
    /\ tlMounted
    /\ Len(tlTags) = 2
    /\ Cardinality(tlTags[1].files) > Cardinality(tlTags[2].files)
    /\ tlTags = getFilesByTag(vaultFiles, cache)
    /\ FirstSeen(vaultFiles, cache, tlTags[1].tag) > FirstSeen(vaultFiles, cache, tlTags[2].tag)

\* C5: a tag selected at the tag source (a tag button of the tag list, or an intercepted
\* click in the host's tag pane) is broadcast as one set-filter event carrying it, a
\* mounted note list ends with that tag as its filter, and a mounted note list is never
\* without its document listener
C5_SetFilterDelivered ==
    [][/\ \A t \in Tags :
            (TagClick(t) /\ tlFilter # t)
                => (dispatched' = <<t>> /\ (nlMounted => nlFilter' = t))
       /\ \A x \in TagTexts :
            handleTagClick(x, TRUE)
                => (dispatched' = <<"#" \o x>> /\ (nlMounted => nlFilter' = "#" \o x))
       /\ nlMounted' => handlers'["set-filter"] >= 1]_vars

\* C5's case: the mounted note list has just received a tag from the host's tag pane
\* and shows fewer notes than the vault holds
C5_Witness ==
    /\ variant = "tagpane"
    /\ nlMounted
    /\ Len(vaultFiles) = 2
    /\ dispatched = <<"#b">>
    /\ nlFilter = "#b"
    /\ nlDisplayed # nlFiles

\* C6: the notes a mounted note list displays are the vault's markdown files when no
\* filter is set, and otherwise the vault's files whose cached tags contain the filter
C6_DisplayMirrorsHost ==
    nlMounted => nlDisplayed = filteredFiles(vaultFiles, nlFilter, cache)

C8_ClickToggles ==
    [][/\ \A t \in Tags :
            TagClick(t) =>
                /\ tlFilter = t => tlFilter' = "undefined"
                /\ tlFilter # t => tlFilter' = t
                /\ (tlFilter = t /\ nlMounted) => (Falsy(nlFilter') /\ nlDisplayed' = nlFiles')
       /\ (tlMounted /\ tlMounted' /\ tlFilter' # tlFilter)
            => dispatched' = <<DetailOf(tlFilter')>>
       /\ tlFilter' \in Tags \cup {"undefined"}]_vars

\* C8's case: a click on a tag button of the per-file tag list has selected that tag
C8_Witness ==
    /\ variant = "props"
    /\ tlMounted
    /\ tlFilter = "#a"
    /\ dispatched = <<"#a">>
    /\ "#b" \in TagButtons

\* C9: while both views are mounted the tag the tag list highlights is the tag the
\* note list filters by (no tag in both when nothing is selected)
C9_FiltersAgree ==
    (tlMounted /\ nlMounted) =>
        \/ Falsy(tlFilter) /\ Falsy(nlFilter)
        \/ tlFilter = nlFilter

\* C10: a closed view leaves none of its listeners on the vault, the metadata cache or
\* the document, and a mounted note list has exactly one set-filter listener
C10_ListenersRemoved ==
    /\ ~nlMounted =>
        \A k \in {"create", "delete", "rename", "modify", "set-filter"} : handlers[k] = 0
    /\ ~tlMounted => handlers["changed"] = 0
    /\ nlMounted => handlers["set-filter"] = 1

====
